---- MODULE Spec2Model ----
(***************************************************************************)
(* A model of src/generate.js: the random, rejection-sampled placement of  *)
(* words on a fixed canvas (estimateBoundingBox, rectanglesOverlap,        *)
(* findNonOverlappingPosition, generateSVG) and the retry loop of main.    *)
(*                                                                         *)
(* Numbers.  The source computes in floating point pixels.  The model      *)
(* computes exactly, in integers, in units of 1 / Unit pixel with          *)
(* Unit = 20 * RandSteps: 0.9, 1.2, FONT_SIZE / 4, width / 2 and every     *)
(* product random * range are then whole numbers of units.  Floating point *)
(* rounding is not modelled.                                               *)
(*                                                                         *)
(* Randomness.  Math.random() yields a value of [0, 1).  The model lets it *)
(* be any of k / RandSteps, k in 0 .. RandSteps - 1, chosen                *)
(* nondeterministically at every call.                                     *)
(***************************************************************************)
EXTENDS Integers, Sequences, FiniteSets, Bags, TLC

VARIABLES
    pc,                \* position of main: "main", "place", "write", "done", "exit"
                       \* ("probe" when a pure function is applied on its own)
    words,             \* main: const words = readWords(inputFile)
    attempts,          \* main: let attempts
    svg,               \* main: let svg (the text elements the markup is built from)
    outputFile,        \* what fs.writeFileSync wrote, NotWritten before
    errorMessage,      \* the unplaced words console.error reported before exit(1)
    shuffledWords,     \* generateSVG: const shuffledWords
    i,                 \* generateSVG: index of `word` in the for-of loop
    placedRectangles,  \* generateSVG: const placedRectangles
    textElements,      \* generateSVG: const textElements
    unplacedWords,     \* generateSVG: const unplacedWords
    attempt,           \* findNonOverlappingPosition: let attempt
    calls,             \* history: number of generateSVG invocations so far
    draws,             \* history: number of candidates drawn in this invocation
    probe              \* a single application of a pure function (function specs)

vars == <<pc, words, attempts, svg, outputFile, errorMessage, shuffledWords, i,
          placedRectangles, textElements, unplacedWords, attempt, calls, draws,
          probe>>

----------------------------------------------------------------------------
(* Bounds of the model *)

\* Math.random() takes the values k / RandSteps, k in 0 .. RandSteps - 1.
RandSteps == 2

\* The input file holds at most MaxWords non-blank lines.
MaxWords == 3

\* MAX_ATTEMPTS of the source is 5000 (line 11); the model runs the same loop
\* with a smaller cap.  Every formula below is stated in terms of the name.
MAX_ATTEMPTS == 2

\* maxRetries of the source is 10 (line 167); the model runs the same loop
\* with a smaller cap.
maxRetries == 2

\* The font sizes the estimator is applied to in SpecEstimate: 1 .. MaxFontSize.
MaxFontSize == 30

\* Rectangles of SpecOverlap have corners in 0 .. MaxCoord and sides in 1 .. MaxSide.
MaxCoord == 3
MaxSide == 2

----------------------------------------------------------------------------
(* Configuration, lines 6-11 *)

SVG_WIDTH == 1056
SVG_HEIGHT == 816
FONT_SIZE == 24

\* Model units per pixel.
Unit == 20 * RandSteps

PADDING == (FONT_SIZE * Unit) \div 4

\* The values of Math.random(), as numerators over RandSteps.
Random == 0 .. (RandSteps - 1)

----------------------------------------------------------------------------
(* Inputs *)

\* A one-character word (33.6 px wide) and a word too wide for the canvas
\* (49 characters: 1070.4 px > 1056 px).
ShortToken == "a"
LongToken == "xxxxxxxxxxxxxxxxxxxxxxxxxxxxxxxxxxxxxxxxxxxxxxxxx"

Tokens == {ShortToken, LongToken}

\* lines 14-17: readWords returns the non-blank lines of the file, in order.
\* Line 77 shuffles them into any order before anything reads them, so the
\* files drawn are those that list shorter words first.
readWords ==
    {ws \in UNION {[1 .. n -> Tokens] : n \in 0 .. MaxWords} :
        \A k \in 1 .. (Len(ws) - 1) : Len(ws[k]) <= Len(ws[k + 1])}

\* The value of `svg` before line 171 assigns it, and the markup of a
\* sequence of text elements (lines 119-140; the markup is modelled by the
\* text elements it is built from).
Undefined == [defined |-> FALSE, elements |-> <<>>]
Markup(elements) == [defined |-> TRUE, elements |-> elements]

\* The output file before and after fs.writeFileSync (line 184).
NotWritten == [written |-> FALSE, content |-> Undefined]
Written(content) == [written |-> TRUE, content |-> content]

----------------------------------------------------------------------------
(* Pure functions *)

\* lines 21-27.  fontSize is in pixels, the result in units.
estimateBoundingBox(text, fontSize) ==
    [width  |-> Len(text) * fontSize * ((9 * Unit) \div 10) + PADDING * 2,
     height |-> fontSize * ((12 * Unit) \div 10) + PADDING * 2]

\* rectanglesOverlap with the heights taken for the widths on the x axis.
rectanglesOverlapSwapped(rect1, rect2) ==
    ~ (\/ rect1.x + rect1.height < rect2.x
       \/ rect2.x + rect2.height < rect1.x
       \/ rect1.y + rect1.height < rect2.y
       \/ rect2.y + rect2.height < rect1.y)

\* rectanglesOverlap with <= for <.
rectanglesOverlapLeq(rect1, rect2) ==
    ~ (\/ rect1.x + rect1.width <= rect2.x
       \/ rect2.x + rect2.width <= rect1.x
       \/ rect1.y + rect1.height <= rect2.y
       \/ rect2.y + rect2.height <= rect1.y)

\* lines 30-37
rectanglesOverlap(rect1, rect2) ==
    ~ (\/ rect1.x + rect1.width < rect2.x
       \/ rect2.x + rect2.width < rect1.x
       \/ rect1.y + rect1.height < rect2.y
       \/ rect2.y + rect2.height < rect1.y)

\* lines 47-55: the candidate drawn with Math.random() = rx / RandSteps and
\* then ry / RandSteps.  A range is a whole multiple of RandSteps units, so
\* the quotient is exact, also when the range is negative.
newRect(boundingBox, width, height, rx, ry) ==
    [x      |-> rx * ((width - boundingBox.width) \div RandSteps),
     y      |-> ry * ((height - boundingBox.height) \div RandSteps),
     width  |-> boundingBox.width,
     height |-> boundingBox.height]

\* lines 58-60
overlaps(candidate, placed) ==
    \E k \in 1 .. Len(placed) : rectanglesOverlap(candidate, placed[k])

\* line 77: a sort with a random comparator yields some permutation.
Shuffle(ws) ==
    {[k \in 1 .. Len(ws) |-> ws[p[k]]] : p \in Permutations(1 .. Len(ws))}

\* lines 91-103: the text element of a placed word.  Its rotation (line 96),
\* a further random draw that nothing but the markup reads, is left out.
textElement(word, position) ==
    [text |-> word,
     x    |-> position.x + position.width \div 2,
     y    |-> position.y + position.height \div 2 + (FONT_SIZE * Unit) \div 3]

\* line 176 with > for >=.
retriesExhaustedLate(n) == n > maxRetries

\* line 176
retriesExhausted(n) == n >= maxRetries

----------------------------------------------------------------------------
(* The program *)

NoProbe == [fn |-> "none"]

Init ==
    /\ pc = "main"
    /\ words \in readWords
    /\ attempts = 0
    /\ svg = Undefined
    /\ outputFile = NotWritten
    /\ errorMessage = <<>>
    /\ shuffledWords = <<>>
    /\ i = 1
    /\ placedRectangles = <<>>
    /\ textElements = <<>>
    /\ unplacedWords = <<>>
    /\ attempt = 0
    /\ calls = 0
    /\ draws = 0
    /\ probe = NoProbe

\* GenerateStart with the three lists kept across invocations, as if they
\* were created once at module level.
GenerateStartKeepsLists ==
    /\ pc = "main"
    /\ attempts < maxRetries
    /\ pc' = "place"
    /\ shuffledWords' \in Shuffle(words)
    /\ i' = 1
    /\ attempt' = 0
    /\ calls' = calls + 1
    /\ draws' = 0
    /\ UNCHANGED <<words, attempts, svg, outputFile, errorMessage, probe,
                   placedRectangles, textElements, unplacedWords>>

\* lines 169-171 and 72-77: the loop condition holds, generateSVG is entered,
\* its three lists are created empty and the words are shuffled.
GenerateStart ==
    /\ pc = "main"
    /\ attempts < maxRetries
    /\ pc' = "place"
    /\ shuffledWords' \in Shuffle(words)
    /\ i' = 1
    /\ placedRectangles' = <<>>
    /\ textElements' = <<>>
    /\ unplacedWords' = <<>>
    /\ attempt' = 0
    /\ calls' = calls + 1
    /\ draws' = 0
    /\ UNCHANGED <<words, attempts, svg, outputFile, errorMessage, probe>>

\* lines 46-63 and 88-103: one iteration of the search draws a candidate that
\* overlaps nothing; it is returned and the word is placed.
DrawAccept ==
    /\ pc = "place"
    /\ i <= Len(shuffledWords)
    /\ attempt < MAX_ATTEMPTS
    /\ \E rx \in Random, ry \in Random :
         LET word == shuffledWords[i]
             boundingBox == estimateBoundingBox(word, FONT_SIZE)
             candidate == newRect(boundingBox, SVG_WIDTH * Unit, SVG_HEIGHT * Unit, rx, ry)
         IN  /\ ~ overlaps(candidate, placedRectangles)
             /\ placedRectangles' = Append(placedRectangles, candidate)
             /\ textElements' = Append(textElements, textElement(word, candidate))
    /\ i' = i + 1
    /\ attempt' = 0
    /\ draws' = draws + 1
    /\ UNCHANGED <<pc, words, attempts, svg, outputFile, errorMessage, shuffledWords,
                   unplacedWords, calls, probe>>

\* DrawReject without attempt++.
DrawRejectNoCount ==
    /\ pc = "place"
    /\ i <= Len(shuffledWords)
    /\ attempt < MAX_ATTEMPTS
    /\ \E rx \in Random, ry \in Random :
         LET word == shuffledWords[i]
             boundingBox == estimateBoundingBox(word, FONT_SIZE)
             candidate == newRect(boundingBox, SVG_WIDTH * Unit, SVG_HEIGHT * Unit, rx, ry)
         IN  overlaps(candidate, placedRectangles)
    /\ draws' = draws + 1
    /\ UNCHANGED <<pc, words, attempts, svg, outputFile, errorMessage, shuffledWords, i,
                   placedRectangles, textElements, unplacedWords, calls, probe, attempt>>

\* lines 46-65: one iteration of the search draws a candidate that overlaps a
\* placed rectangle; the loop goes on.
DrawReject ==
    /\ pc = "place"
    /\ i <= Len(shuffledWords)
    /\ attempt < MAX_ATTEMPTS
    /\ \E rx \in Random, ry \in Random :
         LET word == shuffledWords[i]
             boundingBox == estimateBoundingBox(word, FONT_SIZE)
             candidate == newRect(boundingBox, SVG_WIDTH * Unit, SVG_HEIGHT * Unit, rx, ry)
         IN  overlaps(candidate, placedRectangles)
    /\ attempt' = attempt + 1
    /\ draws' = draws + 1
    /\ UNCHANGED <<pc, words, attempts, svg, outputFile, errorMessage, shuffledWords, i,
                   placedRectangles, textElements, unplacedWords, calls, probe>>

\* SearchExhausted without the else branch of lines 104-106: the word is
\* dropped.
SearchExhaustedDrops ==
    /\ pc = "place"
    /\ i <= Len(shuffledWords)
    /\ attempt = MAX_ATTEMPTS
    /\ i' = i + 1
    /\ attempt' = 0
    /\ UNCHANGED <<pc, words, attempts, svg, outputFile, errorMessage, shuffledWords,
                   placedRectangles, textElements, calls, draws, probe, unplacedWords>>

\* SearchExhausted with a break after line 105: the first failure ends the
\* loop over the words.
SearchExhaustedAborts ==
    /\ pc = "place"
    /\ i <= Len(shuffledWords)
    /\ attempt = MAX_ATTEMPTS
    /\ unplacedWords' = Append(unplacedWords, shuffledWords[i])
    /\ i' = Len(shuffledWords) + 1
    /\ attempt' = 0
    /\ UNCHANGED <<pc, words, attempts, svg, outputFile, errorMessage, shuffledWords,
                   placedRectangles, textElements, calls, draws, probe>>

\* lines 46, 67 and 104-106: the search ran out of attempts and returns null;
\* the word is recorded as unplaced and the loop over the words goes on.
SearchExhausted ==
    /\ pc = "place"
    /\ i <= Len(shuffledWords)
    /\ attempt = MAX_ATTEMPTS
    /\ unplacedWords' = Append(unplacedWords, shuffledWords[i])
    /\ i' = i + 1
    /\ attempt' = 0
    /\ UNCHANGED <<pc, words, attempts, svg, outputFile, errorMessage, shuffledWords,
                   placedRectangles, textElements, calls, draws, probe>>

\* lines 110, 118-140 and 171-173: every word was processed and none is
\* unplaced; generateSVG returns the markup and the retry loop is left.
GenerateReturn ==
    /\ pc = "place"
    /\ i > Len(shuffledWords)
    /\ unplacedWords = <<>>
    /\ svg' = Markup(textElements)
    /\ pc' = "write"
    /\ UNCHANGED <<words, attempts, outputFile, errorMessage, shuffledWords, i,
                   placedRectangles, textElements, unplacedWords, attempt, calls,
                   draws, probe>>

\* lines 110-116 and 174-181: some word is unplaced; generateSVG throws, main
\* counts the failed attempt and either exits or goes round the loop again.
GenerateThrow ==
    /\ pc = "place"
    /\ i > Len(shuffledWords)
    /\ unplacedWords # <<>>
    /\ attempts' = attempts + 1
    /\ IF retriesExhausted(attempts + 1)
         THEN /\ errorMessage' = unplacedWords
              /\ pc' = "exit"
         ELSE /\ errorMessage' = errorMessage
              /\ pc' = "main"
    /\ UNCHANGED <<words, svg, outputFile, shuffledWords, i, placedRectangles,
                   textElements, unplacedWords, attempt, calls, draws, probe>>

\* line 184, reached by the break of line 173 or by the loop condition of
\* line 169 turning false.
WriteOutput ==
    /\ \/ pc = "write"
       \/ pc = "main" /\ ~ (attempts < maxRetries)
    /\ outputFile' = Written(svg)
    /\ pc' = "done"
    /\ UNCHANGED <<words, attempts, svg, errorMessage, shuffledWords, i,
                   placedRectangles, textElements, unplacedWords, attempt, calls,
                   draws, probe>>

Next ==
    \/ GenerateStart
    \/ DrawAccept
    \/ DrawReject
    \/ SearchExhausted
    \/ GenerateReturn
    \/ GenerateThrow
    \/ WriteOutput

Spec == Init /\ [][Next]_vars

----------------------------------------------------------------------------
(* The pure functions on their own: one application to drawn arguments *)

\* The rectangles of the overlap examples: {x:0,y:0,w:10,h:10},
\* {x:10,y:0,w:10,h:10} and {x:9,y:0,w:10,h:10}.
ExampleRects ==
    {[x |-> ex, y |-> 0, width |-> 10, height |-> 10] : ex \in {0, 9, 10}}

GridRects ==
    [x : 0 .. MaxCoord, y : 0 .. MaxCoord, width : 1 .. MaxSide, height : 1 .. MaxSide]

ProbeRects == GridRects \cup ExampleRects

ProbeTexts == Tokens \cup {"abc"}

Idle ==
    /\ pc = "probe"
    /\ words = <<>>
    /\ attempts = 0
    /\ svg = Undefined
    /\ outputFile = NotWritten
    /\ errorMessage = <<>>
    /\ shuffledWords = <<>>
    /\ i = 1
    /\ placedRectangles = <<>>
    /\ textElements = <<>>
    /\ unplacedWords = <<>>
    /\ attempt = 0
    /\ calls = 0
    /\ draws = 0

IdleUnchanged ==
    UNCHANGED <<pc, words, attempts, svg, outputFile, errorMessage, shuffledWords, i,
                placedRectangles, textElements, unplacedWords, attempt, calls, draws>>

InitOverlap ==
    /\ Idle
    /\ probe \in [fn : {"rectanglesOverlap"}, rect1 : ProbeRects, rect2 : ProbeRects,
                  done : {FALSE}, result : {FALSE}]

ApplyOverlap ==
    /\ probe.fn = "rectanglesOverlap"
    /\ ~ probe.done
    /\ probe' = [probe EXCEPT !.done = TRUE,
                              !.result = rectanglesOverlap(probe.rect1, probe.rect2)]
    /\ IdleUnchanged

SpecOverlap == InitOverlap /\ [][ApplyOverlap]_vars

InitEstimate ==
    /\ Idle
    /\ probe \in [fn : {"estimateBoundingBox"}, text : ProbeTexts,
                  fontSize : 1 .. MaxFontSize, done : {FALSE},
                  result : {[width |-> 0, height |-> 0]}]

ApplyEstimate ==
    /\ probe.fn = "estimateBoundingBox"
    /\ ~ probe.done
    /\ probe' = [probe EXCEPT !.done = TRUE,
                              !.result = estimateBoundingBox(probe.text, probe.fontSize)]
    /\ IdleUnchanged

SpecEstimate == InitEstimate /\ [][ApplyEstimate]_vars

----------------------------------------------------------------------------
(* Vocabulary of the properties *)

CanvasWidth == SVG_WIDTH * Unit
CanvasHeight == SVG_HEIGHT * Unit

\* generateSVG returned without throwing.
Succeeded == pc \in {"write", "done"}

\* The loop over the words of the current invocation has ended.
LoopEnded == calls > 0 /\ i > Len(shuffledWords)

Range(seq) == {seq[k] : k \in DOMAIN seq}

BagOfSeq(seq) ==
    [e \in Range(seq) |-> Cardinality({k \in DOMAIN seq : seq[k] = e})]

Texts(elements) == [k \in DOMAIN elements |-> elements[k].text]

\* One of the two lies strictly left of, right of, above or below the other.
StrictlyApart(a, b) ==
    \/ a.x + a.width < b.x
    \/ b.x + b.width < a.x
    \/ a.y + a.height < b.y
    \/ b.y + b.height < a.y

InsideCanvas(r) ==
    /\ 0 <= r.x
    /\ r.x + r.width <= CanvasWidth
    /\ 0 <= r.y
    /\ r.y + r.height <= CanvasHeight

Footprint(word) == estimateBoundingBox(word, FONT_SIZE)

Oversized(word) ==
    \/ Footprint(word).width > CanvasWidth
    \/ Footprint(word).height > CanvasHeight

----------------------------------------------------------------------------
(* C1 *)

\* C1: in every layout attempt that generateSVG completes without throwing,
\* every two distinct placed rectangles lie strictly apart on some axis
\* (the overlap test is false for them).
NoOverlap ==
    Succeeded =>
        \A a, b \in DOMAIN placedRectangles :
            a # b => StrictlyApart(placedRectangles[a], placedRectangles[b])

\* A successful layout of two words of which the second was first rejected.
NoOverlapWitness ==
    /\ pc = "done"
    /\ Len(placedRectangles) = 2
    /\ draws > 2

----------------------------------------------------------------------------
(* C2 *)

\* C2: every rectangle that the search returned and generateSVG recorded lies
\* fully inside the canvas, for words of every length.
AllInsideCanvas ==
    \A k \in DOMAIN placedRectangles : InsideCanvas(placedRectangles[k])

----------------------------------------------------------------------------
(* C3 *)

\* C3: a word whose footprint exceeds the canvas is never placed: no range
\* the search samples from is negative, no text element carries such a word,
\* and no layout of a list that holds one succeeds.
OversizedNeverPlaced ==
    /\ \A k \in DOMAIN textElements : ~ Oversized(textElements[k].text)
    /\ pc = "place" /\ i <= Len(shuffledWords) /\ attempt > 0 =>
           ~ Oversized(shuffledWords[i])
    /\ Succeeded => \A k \in DOMAIN words : ~ Oversized(words[k])

----------------------------------------------------------------------------
(* C4 *)

\* C4: a successful layout holds exactly one placement per input word: the
\* texts of the text elements are, as a multiset, the input words, and there
\* are as many placed rectangles as input words.
Completeness ==
    Succeeded =>
        /\ svg.defined
        /\ BagOfSeq(Texts(svg.elements)) = BagOfSeq(words)
        /\ Len(svg.elements) = Len(words)
        /\ Len(placedRectangles) = Len(words)

\* A successful layout of the same word twice, after a failed attempt.
CompletenessWitness ==
    /\ pc = "done"
    /\ Len(words) = 2
    /\ words[1] = words[2]
    /\ attempts > 0

----------------------------------------------------------------------------
(* C5 *)

TouchingExample ==
    /\ probe.rect1 = [x |-> 0, y |-> 0, width |-> 10, height |-> 10]
    /\ probe.rect2 = [x |-> 10, y |-> 0, width |-> 10, height |-> 10]

IntersectingExample ==
    /\ probe.rect1 = [x |-> 0, y |-> 0, width |-> 10, height |-> 10]
    /\ probe.rect2 = [x |-> 9, y |-> 0, width |-> 10, height |-> 10]

\* The edges touch on the x axis with zero gap and the y intervals meet.
EdgesTouch(a, b) ==
    /\ a.x + a.width = b.x \/ b.x + b.width = a.x
    /\ a.y <= b.y + b.height
    /\ b.y <= a.y + a.height

\* The open intervals intersect on both axes.
StrictlyIntersect(a, b) ==
    /\ a.x < b.x + b.width
    /\ b.x < a.x + a.width
    /\ a.y < b.y + b.height
    /\ b.y < a.y + a.height

\* The closed rectangles have a point in common (corners are integers, so a
\* common point exists exactly when a common integer point does).
SharePoint(a, b) ==
    \E px \in a.x .. (a.x + a.width), py \in a.y .. (a.y + a.height) :
        /\ b.x <= px /\ px <= b.x + b.width
        /\ b.y <= py /\ py <= b.y + b.height

\* C5 as claimed: rectangles whose edges exactly touch are classified as not
\* overlapping, rectangles that strictly intersect as overlapping.
TouchingNotOverlapping ==
    probe.fn = "rectanglesOverlap" /\ probe.done =>
        /\ EdgesTouch(probe.rect1, probe.rect2) => ~ probe.result
        /\ StrictlyIntersect(probe.rect1, probe.rect2) => probe.result

\* C5 as amended: rectanglesOverlap is true exactly when the closed
\* rectangles share a point; rectangles whose edges exactly touch are
\* classified as overlapping, like those that strictly intersect.
TouchingOverlapping ==
    probe.fn = "rectanglesOverlap" /\ probe.done =>
        /\ probe.result <=> SharePoint(probe.rect1, probe.rect2)
        /\ EdgesTouch(probe.rect1, probe.rect2) => probe.result
        /\ StrictlyIntersect(probe.rect1, probe.rect2) => probe.result

\* The test applied to {x:0,y:0,w:10,h:10} and {x:10,y:0,w:10,h:10}.
TouchingOverlappingWitness ==
    /\ probe.fn = "rectanglesOverlap"
    /\ probe.done
    /\ TouchingExample
    /\ probe.result

----------------------------------------------------------------------------
(* C6 *)

\* C6: main invokes generateSVG until one attempt is complete or maxRetries
\* attempts were incomplete: every invocation but the running or successful
\* one was incomplete, there are never more than maxRetries invocations, a
\* complete attempt ends the loop, and main exits, reporting the words the
\* last attempt left unplaced and writing nothing, exactly when maxRetries
\* attempts were incomplete.
RetryDriver ==
    /\ calls <= maxRetries
    /\ attempts <= maxRetries
    /\ pc = "main" => calls = attempts
    /\ pc = "place" => calls = attempts + 1
    /\ Succeeded => calls = attempts + 1 /\ unplacedWords = <<>> /\ svg.defined
    /\ pc = "done" => outputFile = Written(svg) /\ svg.defined
    /\ pc = "exit" <=> attempts = maxRetries
    /\ pc = "exit" =>
           /\ calls = maxRetries
           /\ outputFile = NotWritten
           /\ errorMessage = unplacedWords
           /\ unplacedWords # <<>>
    /\ pc # "exit" => errorMessage = <<>>
    /\ pc # "done" => outputFile = NotWritten

\* main exited after maxRetries incomplete attempts.
RetryDriverWitness ==
    /\ pc = "exit"
    /\ calls = maxRetries
    /\ errorMessage # <<>>

----------------------------------------------------------------------------
(* C7 *)

\* C7: every attempt starts its loop with no placed rectangle, no text
\* element and no unplaced word, and when an attempt after a failed one
\* places all words, the result written is that attempt's placements only:
\* one text element per placed rectangle of that attempt, in order.
FreshAttempt ==
    /\ pc = "place" /\ i = 1 =>
           /\ placedRectangles = <<>>
           /\ textElements = <<>>
           /\ unplacedWords = <<>>
    /\ Succeeded =>
           /\ svg = Markup(textElements)
           /\ Len(textElements) = Len(placedRectangles)
           /\ Len(textElements) = Len(shuffledWords)
           /\ \A k \in DOMAIN textElements :
                  textElements[k] = textElement(shuffledWords[k], placedRectangles[k])
    /\ pc = "done" => outputFile = Written(Markup(textElements))

\* A layout of two words that succeeded after a failed attempt.
FreshAttemptWitness ==
    /\ pc = "done"
    /\ attempts >= 1
    /\ outputFile.written
    /\ Len(outputFile.content.elements) = 2
    /\ Len(words) = 2

----------------------------------------------------------------------------
(* C8 *)

\* Steps one word can take: MAX_ATTEMPTS draws and the return of null.
PerWord == MAX_ATTEMPTS + 1

\* Steps one invocation can take: its start, its words and its end.
PerCall == Len(words) * PerWord + 2

\* An upper bound of the number of steps the run can still take.
Rank ==
    CASE pc = "main"  -> (maxRetries - calls) * PerCall + 1
      [] pc = "place" -> (maxRetries - calls) * PerCall
                           + (Len(shuffledWords) + 1 - i) * PerWord - attempt + 2
      [] pc = "write" -> 1
      [] OTHER        -> 0

\* An upper bound of the number of candidates the run can still draw; it is
\* maxRetries x tokenCount x MAX_ATTEMPTS when the run starts.
DrawsLeft ==
    CASE pc = "main"  -> (maxRetries - calls) * Len(words) * MAX_ATTEMPTS
      [] pc = "place" -> (maxRetries - calls) * Len(words) * MAX_ATTEMPTS
                           + (Len(shuffledWords) + 1 - i) * MAX_ATTEMPTS - attempt
      [] OTHER        -> 0

\* The candidates a step draws.
Drawn == IF calls' = calls THEN draws' - draws ELSE 0

DrawBound ==
    /\ attempt <= MAX_ATTEMPTS
    /\ calls <= maxRetries
    /\ i <= Len(words) + 1
    /\ draws <= Len(words) * MAX_ATTEMPTS
    /\ Rank >= 0
    /\ DrawsLeft >= 0
    /\ calls = 0 => DrawsLeft = maxRetries * Len(words) * MAX_ATTEMPTS

\* C8: every run terminates: every step of the program lowers a rank that is
\* never negative; one search draws at most MAX_ATTEMPTS candidates, one
\* attempt processes each word once, at most maxRetries attempts run, and
\* every candidate drawn is paid from a budget of
\* maxRetries x tokenCount x MAX_ATTEMPTS draws that no step refills.
Termination ==
    []DrawBound /\ [][Rank' < Rank /\ Drawn >= 0 /\ DrawsLeft' + Drawn <= DrawsLeft]_vars

\* main exited after an attempt that placed a word at once and used up the
\* search of the next one.
TerminationWitness ==
    /\ pc = "exit"
    /\ draws >= MAX_ATTEMPTS + 1

----------------------------------------------------------------------------
(* C9 *)

\* C9: estimateBoundingBox(token, fontSize) is
\* length x fontSize x 0.9 + 2 x padding wide and fontSize x 1.2 + 2 x padding
\* high, with padding = fontSize / 4 of the fontSize passed in.
EstimateFromArgument ==
    probe.fn = "estimateBoundingBox" /\ probe.done =>
        LET padding == (probe.fontSize * Unit) \div 4
        IN  /\ probe.result.width =
                   Len(probe.text) * probe.fontSize * ((9 * Unit) \div 10) + 2 * padding
            /\ probe.result.height =
                   probe.fontSize * ((12 * Unit) \div 10) + 2 * padding

----------------------------------------------------------------------------
(* C10 *)

\* The words processed so far are, as a multiset, the placed and the
\* unplaced ones; after the loop these are the input words.
Partition ==
    calls > 0 =>
        /\ i <= Len(shuffledWords) + 1
        /\ Len(textElements) + Len(unplacedWords) = i - 1
        /\ BagOfSeq(Texts(textElements)) (+) BagOfSeq(unplacedWords)
               = BagOfSeq(SubSeq(shuffledWords, 1, i - 1))
        /\ LoopEnded =>
               BagOfSeq(Texts(textElements)) (+) BagOfSeq(unplacedWords)
                   = BagOfSeq(words)
        /\ Succeeded => LoopEnded /\ unplacedWords = <<>>
        /\ pc \in {"main", "exit"} => LoopEnded /\ unplacedWords # <<>>

\* A word joins the unplaced list exactly in the step in which its search
\* returns null, and the loop goes on with the next word; the step that ends
\* the attempt returns exactly when no word is unplaced.
UnplacedOnNull ==
    /\ pc = "place" /\ i > Len(shuffledWords) =>
           (pc' = "write" <=> unplacedWords = <<>>)
    /\ unplacedWords' # unplacedWords /\ unplacedWords' # <<>> =>
           /\ attempt = MAX_ATTEMPTS
           /\ unplacedWords' = Append(unplacedWords, shuffledWords[i])
    /\ pc = "place" /\ i <= Len(shuffledWords) /\ attempt = MAX_ATTEMPTS =>
           /\ unplacedWords' = Append(unplacedWords, shuffledWords[i])
           /\ i' = i + 1
           /\ pc' = "place"
           /\ textElements' = textElements

\* C10: a placement failure does not abort the attempt: every word of the
\* shuffled list is processed once, the placed and the unplaced words
\* partition the input, a word is unplaced exactly when its search returned
\* null, and the attempt is complete exactly when no word is unplaced.
FailureDoesNotAbort == []Partition /\ [][UnplacedOnNull]_vars

\* An attempt of three words in which the search of the second word failed
\* and the third word was placed all the same.
FailureDoesNotAbortWitness ==
    /\ LoopEnded
    /\ Len(shuffledWords) = 3
    /\ shuffledWords[2] \notin {shuffledWords[1], shuffledWords[3]}
    /\ unplacedWords = <<shuffledWords[2]>>
    /\ Texts(textElements) = <<shuffledWords[1], shuffledWords[3]>>

====
